---- MODULE Spec2Model ----
(***************************************************************************)
(* Model of the Okavango data pipeline (src/app/okavango_app.py, with the  *)
(* year de-duplication of src/app/okavango.py beside it).                  *)
(*                                                                         *)
(* OkavangoData.__init__ runs three handlers in a row over `sources`:      *)
(*   download_project_data       fetches every source into download_dir,  *)
(*   _load_and_clean_dataframes  reads and normalises every CSV and reads *)
(*                               the shapefile,                            *)
(*   merge_geospatial_layers     left-joins the polygons with every       *)
(*                               indicator table.                          *)
(* Each loop iteration of a handler is one step; `pc` and `i` hold the     *)
(* position of the (single-threaded) run.                                  *)
(*                                                                         *)
(* Data frames are [cols, rows]: `cols` the column labels in order, `rows` *)
(* the rows in order, each row [idx, cells] with `idx` the pandas index    *)
(* label and `cells` aligned with `cols`.  A cell is a Str, a Num or NULL  *)
(* (pandas NaN/None).  An Optional attribute is <<>> (None) or <<value>>.  *)
(***************************************************************************)
EXTENDS Integers, Sequences, FiniteSets, TLC

VARIABLES
    impl,           \* which module's OkavangoData runs: "okavango_app" | "okavango"
    sources,        \* self.sources: sequence of DataSource
    disk,           \* the files under download_dir: path -> content
    nreq,           \* requests.get calls issued so far, per target path
    run,            \* number of the current pipeline invocation on this download_dir
    pc,             \* position of the run: "download" | "load" | "merge" | "done" | "error"
    i,              \* index of the loop the run is in (1-based)
    dataframes,     \* self.dataframes: insertion-ordered sequence of [name, df]
    geo_dataframe,  \* self.geo_dataframe: None or a data frame
    merged_gdf,     \* the local merged_gdf of merge_geospatial_layers
    merged_data,    \* self.merged_data: None or a data frame
    err,            \* the exception that ended the run, or NoError
    first_ok,       \* history: the first invocation's download_project_data returned
    snap            \* history: the disk when first_ok was set

vars == <<impl, sources, disk, nreq, run, pc, i, dataframes, geo_dataframe,
          merged_gdf, merged_data, err, first_ok, snap>>

----------------------------------------------------------------------------
(* Bounds of the model *)

\* most columns of a raw CSV table
MaxCols == 2
\* most rows of a raw CSV table
MaxRows == 2
\* most rows of an indicator table handed to the merge
MaxTableRows == 2
\* most entries of `sources`
MaxSources == 2
\* most pipeline invocations on one download_dir
MaxRuns == 2

----------------------------------------------------------------------------
(* Cells, rows, data frames *)

Str(s) == [k |-> "str", s |-> s, n |-> 0]
Num(n) == [k |-> "num", s |-> "", n |-> n]
NULL == [k |-> "null", s |-> "", n |-> 0]

None == <<>>
Some(x) == <<x>>

Row(idx, cells) == [idx |-> idx, cells |-> cells]
Frame(cols, rows) == [cols |-> cols, rows |-> rows]

\* `name in df.columns`
HasCol(df, name) == \E k \in 1..Len(df.cols) : df.cols[k] = name

\* position of the column labelled `name` (the first, labels are unique here)
ColIndex(df, name) == CHOOSE k \in 1..Len(df.cols) :
                          df.cols[k] = name /\ \A j \in 1..(k - 1) : df.cols[j] # name

\* df[name] of one row
Cell(df, r, name) == df.rows[r].cells[ColIndex(df, name)]

RECURSIVE SelectSeq2(_, _)
\* the subsequence of s at the positions in keep (a set), order kept
SelectSeq2(s, keep) ==
    IF s = <<>> THEN <<>>
    ELSE LET n == Len(s)
             front == SelectSeq2(SubSeq(s, 1, n - 1), keep)
         IN IF n \in keep THEN Append(front, s[n]) ELSE front

\* df.empty: any axis of length 0
IsEmpty(df) == Len(df.cols) = 0 \/ Len(df.rows) = 0

----------------------------------------------------------------------------
(* str methods *)

UpperChars == "ABCDEFGHIJKLMNOPQRSTUVWXYZ"
LowerChars == "abcdefghijklmnopqrstuvwxyz"

LowerChar(c) ==
    IF \E k \in 1..Len(UpperChars) : SubSeq(UpperChars, k, k) = c
    THEN LET k == CHOOSE k \in 1..Len(UpperChars) : SubSeq(UpperChars, k, k) = c
         IN SubSeq(LowerChars, k, k)
    ELSE c

RECURSIVE LowerFrom(_, _)
LowerFrom(s, k) ==
    IF k > Len(s) THEN "" ELSE LowerChar(SubSeq(s, k, k)) \o LowerFrom(s, k + 1)

\* col.lower()
Lower(s) == LowerFrom(s, 1)

\* sub in s
Contains(s, sub) ==
    \E k \in 1..(Len(s) - Len(sub) + 1) : SubSeq(s, k, k + Len(sub) - 1) = sub

\* s.endswith(suf)
EndsWith(s, suf) ==
    /\ Len(s) >= Len(suf)
    /\ SubSeq(s, Len(s) - Len(suf) + 1, Len(s)) = suf

----------------------------------------------------------------------------
(* pandas operations used by _load_and_clean_dataframes *)

\* pd.read_csv: the header line gives the labels, the index is 0..n-1
ReadCsv(raw) ==
    Frame(raw.cols, [r \in 1..Len(raw.rows) |-> Row(r - 1, raw.rows[r])])

\* df[[labels at the positions keep]] in the order of the sequence keep
TakeCols(df, keep) ==
    Frame([k \in 1..Len(keep) |-> df.cols[keep[k]]],
          [r \in 1..Len(df.rows) |->
              Row(df.rows[r].idx, [k \in 1..Len(keep) |-> df.rows[r].cells[keep[k]]])])

\* df.drop(columns=[name])
DropColumn(df, name) ==
    LET keep == {k \in 1..Len(df.cols) : df.cols[k] # name}
        pos == SelectSeq2([k \in 1..Len(df.cols) |-> k], keep)
    IN TakeCols(df, pos)

\* df.rename(columns={df.cols[k]: name})
RenameColumn(df, k, name) ==
    Frame([j \in 1..Len(df.cols) |-> IF j = k THEN name ELSE df.cols[j]], df.rows)

\* df.dropna(subset=[name])
DropNa(df, name) ==
    LET keep == {r \in 1..Len(df.rows) : Cell(df, r, name) # NULL}
    IN Frame(df.cols, SelectSeq2(df.rows, keep))

\* the bijections of 1..n
Perms(n) == {p \in [1..n -> 1..n] : \A a, b \in 1..n : p[a] = p[b] => a = b}

\* mutant of SortValuesYearDesc: the sort ascending
SortValuesYearAsc(df) ==
    LET n == Len(df.rows)
        y == ColIndex(df, "Year")
    IN { Frame(df.cols, [k \in 1..n |-> df.rows[p[k]]]) :
           p \in {q \in Perms(n) :
                    \A k \in 1..(n - 1) :
                        df.rows[q[k]].cells[y].n <= df.rows[q[k + 1]].cells[y].n} }

\* df.sort_values("Year", ascending=False): the default kind is quicksort, which
\* is not stable (numpy sorts stably only the short arrays it hands to insertion
\* sort), so rows of equal Year may come out in any order; the short tables of
\* the model stand for tables of any length
SortValuesYearDesc(df) ==
    LET n == Len(df.rows)
        y == ColIndex(df, "Year")
    IN { Frame(df.cols, [k \in 1..n |-> df.rows[p[k]]]) :
           p \in {q \in Perms(n) :
                    \A k \in 1..(n - 1) :
                        df.rows[q[k]].cells[y].n >= df.rows[q[k + 1]].cells[y].n} }

\* df.drop_duplicates(subset=[name]): keep="first"
DropDuplicates(df, name) ==
    LET keep == {r \in 1..Len(df.rows) :
                    \A q \in 1..(r - 1) : Cell(df, q, name) # Cell(df, r, name)}
    IN Frame(df.cols, SelectSeq2(df.rows, keep))

----------------------------------------------------------------------------
(* _load_and_clean_dataframes of okavango_app.py, the CSV branch *)

\* "code" in clean_col or "iso" in clean_col
IsCodeLike(col) ==
    LET clean_col == Lower(col)
    IN Contains(clean_col, "code") \/ Contains(clean_col, "iso")

\* "entity" in clean_col or "country" in clean_col or "name" in clean_col
IsNameLike(col) ==
    LET clean_col == Lower(col)
    IN \/ Contains(clean_col, "entity")
       \/ Contains(clean_col, "country")
       \/ Contains(clean_col, "name")

RECURSIVE ScanCodeLike(_, _)
\* the first loop: the position of the first code-like label from k on, 0 if none
ScanCodeLike(cols, k) ==
    IF k > Len(cols) THEN 0
    ELSE IF IsCodeLike(cols[k]) THEN k ELSE ScanCodeLike(cols, k + 1)

RECURSIVE ScanNameLike(_, _)
\* the second loop: the position of the first name-like label from k on, 0 if none
ScanNameLike(cols, k) ==
    IF k > Len(cols) THEN 0
    ELSE IF IsNameLike(cols[k]) THEN k ELSE ScanNameLike(cols, k + 1)

RECURSIVE ScanKeyword(_, _, _)
\* the position of the first label from k on whose lower case contains word
ScanKeyword(cols, word, k) ==
    IF k > Len(cols) THEN 0
    ELSE IF Contains(Lower(cols[k]), word) THEN k ELSE ScanKeyword(cols, word, k + 1)

\* mutant of FindGeoCol: the fallback by keyword, "entity" before "country"
\* before "name", whatever the positions
FindGeoColByKeyword(cols) ==
    LET first == ScanCodeLike(cols, 1)
    IN IF first # 0 THEN first
       ELSE IF ScanKeyword(cols, "entity", 1) # 0 THEN ScanKeyword(cols, "entity", 1)
       ELSE IF ScanKeyword(cols, "country", 1) # 0 THEN ScanKeyword(cols, "country", 1)
       ELSE ScanKeyword(cols, "name", 1)

\* geo_col, as a position in df.columns; 0 stands for None
FindGeoCol(cols) ==
    LET first == ScanCodeLike(cols, 1)
    IN IF first # 0 THEN first ELSE ScanNameLike(cols, 1)

\* if geo_col != "Code": drop a present "Code", rename geo_col to "Code"
StandardizeCode(df, geo_col) ==
    IF df.cols[geo_col] = "Code" THEN df
    ELSE LET name == df.cols[geo_col]
             d == IF HasCol(df, "Code") THEN DropColumn(df, "Code") ELSE df
         IN RenameColumn(d, ColIndex(d, name), "Code")

\* if "Year" in df.columns: sort_values(...).drop_duplicates(subset=["Code"]);
\* the set of frames the statement can yield
DedupMostRecent(df) ==
    IF HasCol(df, "Year")
    THEN {DropDuplicates(s, "Code") : s \in SortValuesYearDesc(df)}
    ELSE {df}

StructuralCols == {"Code", "Year", "Entity", "Country"}

\* df[keep_cols]: "Code" first, then every label outside StructuralCols
KeepCols(df) ==
    LET others == {k \in 1..Len(df.cols) : df.cols[k] \notin StructuralCols}
    IN TakeCols(df, <<ColIndex(df, "Code")>> \o
                    SelectSeq2([k \in 1..Len(df.cols) |-> k], others))

\* the frames the CSV branch can store for a raw table that has a geo_col
CleanFrames(raw) ==
    LET df == ReadCsv(raw)
        std == DropNa(StandardizeCode(df, FindGeoCol(df.cols)), "Code")
    IN {KeepCols(d) : d \in DedupMostRecent(std)}

----------------------------------------------------------------------------
(* _load_and_clean_dataframes of okavango.py, the CSV branch *)

LegacyCodeNames == {"code", "iso code", "iso_code", "country code"}

RECURSIVE LegacyScan(_, _)
\* next(col for col in df.columns if col.lower() in [...]), 0 for None
LegacyScan(cols, k) ==
    IF k > Len(cols) THEN 0
    ELSE IF Lower(cols[k]) \in LegacyCodeNames THEN k ELSE LegacyScan(cols, k + 1)

\* the country codes of the model in the order groupby sorts them
SortedCodes == <<"FRA", "USA">>

\* df.groupby("Code")["Year"].idxmax(): per code, in sorted code order, the
\* position of the first row that holds the greatest Year of the code
IdxMax(df) ==
    LET y == ColIndex(df, "Year")
        rowsOf(c) == {r \in 1..Len(df.rows) : Cell(df, r, "Code") = Str(c)}
        best(c) == CHOOSE r \in rowsOf(c) :
                      /\ \A q \in rowsOf(c) : df.rows[q].cells[y].n <= df.rows[r].cells[y].n
                      /\ \A q \in rowsOf(c) :
                            q < r => df.rows[q].cells[y].n < df.rows[r].cells[y].n
        present == SelectSeq(SortedCodes, LAMBDA c : rowsOf(c) # {})
    IN [k \in 1..Len(present) |-> best(present[k])]

\* the frame the CSV branch of okavango.py stores for a raw table with a code_col
LegacyCleanFrame(raw) ==
    LET df == ReadCsv(raw)
        std == DropNa(RenameColumn(df, LegacyScan(df.cols, 1), "Code"), "Code")
    IN IF HasCol(std, "Year")
       THEN LET idx == IdxMax(std)
            IN Frame(std.cols, [k \in 1..Len(idx) |-> std.rows[idx[k]]])
       ELSE std

----------------------------------------------------------------------------
(* pandas operations used by merge_geospatial_layers *)

\* the right-hand labels after suffixes=("", "_drop"): a label both sides hold
\* gets the suffix on the right (left_on differs from right_on, so the key
\* columns are labels like the others)
SuffixedRight(left, right) ==
    [k \in 1..Len(right.cols) |->
        IF HasCol(left, right.cols[k]) THEN right.cols[k] \o "_drop" ELSE right.cols[k]]

RECURSIVE JoinRows(_, _, _, _)
\* the rows of a left join from left row r on: per left row, in left order, one
\* row per right row of equal key, in right order, or one row of NULLs
JoinRows(left, right, left_on, r) ==
    IF r > Len(left.rows) THEN <<>>
    ELSE LET key == Cell(left, r, left_on)
             hits == SelectSeq2(right.rows,
                        {q \in 1..Len(right.rows) : Cell(right, q, "Code") = key})
             nulls == [k \in 1..Len(right.cols) |-> NULL]
             out == IF hits = <<>>
                    THEN <<left.rows[r].cells \o nulls>>
                    ELSE [q \in 1..Len(hits) |-> left.rows[r].cells \o hits[q].cells]
         IN out \o JoinRows(left, right, left_on, r + 1)

\* left.merge(right, left_on=left_on, right_on="Code", how="left",
\*            suffixes=("", "_drop")); the result has a fresh index
MergeLeft(left, right, left_on) ==
    LET cells == JoinRows(left, right, left_on, 1)
    IN Frame(left.cols \o SuffixedRight(left, right),
             [r \in 1..Len(cells) |-> Row(r - 1, cells[r])])

\* merged_gdf[[c for c in merged_gdf.columns if not c.endswith("_drop")]]
DropSuffixed(df) ==
    LET keep == {k \in 1..Len(df.cols) : ~EndsWith(df.cols[k], "_drop")}
    IN TakeCols(df, SelectSeq2([k \in 1..Len(df.cols) |-> k], keep))

\* mutant of MapCodeCol: the secondary attribute tried first
MapCodeColIsoFirst(df) == IF HasCol(df, "ISO_A3") THEN "ISO_A3" ELSE "ADM0_A3"

\* map_code_col
MapCodeCol(df) == IF HasCol(df, "ADM0_A3") THEN "ADM0_A3" ELSE "ISO_A3"

\* one pass of the loop body for a non-empty df
JoinStep(merged, df) == DropSuffixed(MergeLeft(merged, df, MapCodeCol(merged)))

----------------------------------------------------------------------------
(* Sources, files and exceptions *)

\* DataSource; `filename` is "" (None) for the shapefile archive
DataSource(url, filename, is_shapefile) ==
    [url |-> url, filename |-> filename, is_shapefile |-> is_shapefile]

\* os.path.join(download_dir, "ne_110m_admin_0_countries.zip")
ZipPath == "ne_110m_admin_0_countries.zip"
\* os.path.join(shapefile_dir, "ne_110m_admin_0_countries.shp")
ShpPath == "ne_110m_admin_0_countries/ne_110m_admin_0_countries.shp"

CsvNames == {"a.csv", "b.csv"}
Paths == CsvNames \cup {ZipPath, ShpPath}

EmptyFrame == Frame(<<>>, <<>>)

\* a file: "csv" a CSV text, "zip" a valid archive holding the shapefile, "shp"
\* the extracted shapefile, "badzip" a complete body that is no archive,
\* "partial" a file opened for writing whose body never arrived; Absent is no file
File(kind, body) == [kind |-> kind, body |-> body]
Absent == File("absent", EmptyFrame)

\* os.path.exists
Exists(d, path) == d[path] # Absent

\* the path whose existence download_project_data tests for a source
Target(source) == IF source.is_shapefile THEN ZipPath ELSE source.filename

Exception(kind, stage, at) == [kind |-> kind, stage |-> stage, at |-> at]
NoError == Exception("", "", 0)

\* self.dataframes[name] = df: a dict keeps the place of a key it already holds
DictSet(d, name, df) ==
    IF \E k \in 1..Len(d) : d[k].name = name
    THEN [k \in 1..Len(d) |-> IF d[k].name = name THEN [name |-> name, df |-> df] ELSE d[k]]
    ELSE Append(d, [name |-> name, df |-> df])

----------------------------------------------------------------------------
(* download_project_data of okavango_app.py: one step per source *)

InDownload == pc = "download" /\ i <= Len(sources)

Raise(kind, stage) ==
    /\ pc' = "error"
    /\ err' = Exception(kind, stage, i)

\* mutant of NotOnDisk: the existence test left out, every source is fetched
AlwaysFetch(source) == TRUE

\* `if not os.path.exists(...)`: the guard of a fetch
NotOnDisk(source) == ~Exists(disk, Target(source))

DownloadSkip ==
    /\ InDownload
    /\ ~NotOnDisk(sources[i])
    /\ i' = i + 1
    /\ UNCHANGED <<impl, sources, disk, nreq, run, pc, dataframes, geo_dataframe,
                   merged_gdf, merged_data, err, first_ok, snap>>

\* requests.get raises, or raise_for_status does: no file is opened
DownloadHttpError ==
    /\ InDownload
    /\ NotOnDisk(sources[i])
    /\ nreq' = [nreq EXCEPT ![Target(sources[i])] = @ + 1]
    /\ Raise("HTTPError", "download")
    /\ UNCHANGED <<impl, sources, disk, run, i, dataframes, geo_dataframe,
                   merged_gdf, merged_data, first_ok, snap>>

\* the body stops arriving after open(path, "wb"): iter_content raises between
\* chunks (shapefile), response.content raises inside the with block (CSV)
DownloadBodyError ==
    /\ InDownload
    /\ NotOnDisk(sources[i])
    /\ nreq' = [nreq EXCEPT ![Target(sources[i])] = @ + 1]
    /\ disk' = [disk EXCEPT ![Target(sources[i])] = File("partial", EmptyFrame)]
    /\ Raise("ConnectionError", "download")
    /\ UNCHANGED <<impl, sources, run, i, dataframes, geo_dataframe,
                   merged_gdf, merged_data, first_ok, snap>>

\* the whole body is written but zipfile.ZipFile rejects it
DownloadBadZip ==
    /\ InDownload
    /\ NotOnDisk(sources[i])
    /\ sources[i].is_shapefile
    /\ nreq' = [nreq EXCEPT ![ZipPath] = @ + 1]
    /\ disk' = [disk EXCEPT ![ZipPath] = File("badzip", EmptyFrame)]
    /\ Raise("BadZipFile", "download")
    /\ UNCHANGED <<impl, sources, run, i, dataframes, geo_dataframe,
                   merged_gdf, merged_data, first_ok, snap>>

\* the archive is written and extracted into shapefile_dir
DownloadShapefile(geo) ==
    /\ InDownload
    /\ NotOnDisk(sources[i])
    /\ sources[i].is_shapefile
    /\ nreq' = [nreq EXCEPT ![ZipPath] = @ + 1]
    /\ disk' = [disk EXCEPT ![ZipPath] = File("zip", geo), ![ShpPath] = File("shp", geo)]
    /\ i' = i + 1
    /\ UNCHANGED <<impl, sources, run, pc, dataframes, geo_dataframe,
                   merged_gdf, merged_data, err, first_ok, snap>>

\* the response body is written verbatim to csv_path
DownloadCsv(raw) ==
    /\ InDownload
    /\ NotOnDisk(sources[i])
    /\ ~sources[i].is_shapefile
    /\ nreq' = [nreq EXCEPT ![sources[i].filename] = @ + 1]
    /\ disk' = [disk EXCEPT ![sources[i].filename] = File("csv", raw)]
    /\ i' = i + 1
    /\ UNCHANGED <<impl, sources, run, pc, dataframes, geo_dataframe,
                   merged_gdf, merged_data, err, first_ok, snap>>

\* the loop is over: __init__ goes on to _load_and_clean_dataframes
DownloadFinish ==
    /\ pc = "download"
    /\ i > Len(sources)
    /\ pc' = "load"
    /\ i' = 1
    /\ first_ok' = (first_ok \/ run = 1)
    /\ snap' = IF run = 1 THEN disk ELSE snap
    /\ UNCHANGED <<impl, sources, disk, nreq, run, dataframes, geo_dataframe,
                   merged_gdf, merged_data, err>>

----------------------------------------------------------------------------
(* _load_and_clean_dataframes: one step per source *)

InLoad == pc = "load" /\ i <= Len(sources)

\* gpd.read_file(shp_path) of an extracted shapefile
LoadShapefile ==
    /\ InLoad
    /\ sources[i].is_shapefile
    /\ disk[ShpPath].kind = "shp"
    /\ geo_dataframe' = Some(disk[ShpPath].body)
    /\ i' = i + 1
    /\ UNCHANGED <<impl, sources, disk, nreq, run, pc, dataframes,
                   merged_gdf, merged_data, err, first_ok, snap>>

\* gpd.read_file raises: the archive was never extracted
LoadShapefileError ==
    /\ InLoad
    /\ sources[i].is_shapefile
    /\ disk[ShpPath].kind # "shp"
    /\ Raise("DataSourceError", "load")
    /\ UNCHANGED <<impl, sources, disk, nreq, run, i, dataframes, geo_dataframe,
                   merged_gdf, merged_data, first_ok, snap>>

\* pd.read_csv of a file without a header line raises EmptyDataError
LoadCsvError ==
    /\ InLoad
    /\ ~sources[i].is_shapefile
    /\ disk[sources[i].filename].kind = "partial"
    /\ Raise("EmptyDataError", "load")
    /\ UNCHANGED <<impl, sources, disk, nreq, run, i, dataframes, geo_dataframe,
                   merged_gdf, merged_data, first_ok, snap>>

\* okavango_app.py: `continue` when csv_path does not exist or geo_col is None
LoadCsvSkip ==
    /\ InLoad
    /\ impl = "okavango_app"
    /\ ~sources[i].is_shapefile
    /\ \/ ~Exists(disk, sources[i].filename)
       \/ /\ disk[sources[i].filename].kind = "csv"
          /\ FindGeoCol(disk[sources[i].filename].body.cols) = 0
    /\ i' = i + 1
    /\ UNCHANGED <<impl, sources, disk, nreq, run, pc, dataframes, geo_dataframe,
                   merged_gdf, merged_data, err, first_ok, snap>>

\* okavango_app.py: the normalised table is stored under the source's filename
LoadCsvStore ==
    /\ InLoad
    /\ impl = "okavango_app"
    /\ ~sources[i].is_shapefile
    /\ disk[sources[i].filename].kind = "csv"
    /\ FindGeoCol(disk[sources[i].filename].body.cols) # 0
    /\ \E df \in CleanFrames(disk[sources[i].filename].body) :
           dataframes' = DictSet(dataframes, sources[i].filename, df)
    /\ i' = i + 1
    /\ UNCHANGED <<impl, sources, disk, nreq, run, pc, geo_dataframe,
                   merged_gdf, merged_data, err, first_ok, snap>>

\* okavango.py: `continue` when code_col is None
LegacyLoadCsvSkip ==
    /\ InLoad
    /\ impl = "okavango"
    /\ ~sources[i].is_shapefile
    /\ disk[sources[i].filename].kind = "csv"
    /\ LegacyScan(disk[sources[i].filename].body.cols, 1) = 0
    /\ i' = i + 1
    /\ UNCHANGED <<impl, sources, disk, nreq, run, pc, dataframes, geo_dataframe,
                   merged_gdf, merged_data, err, first_ok, snap>>

\* okavango.py: the table is stored under the source's filename
LegacyLoadCsvStore ==
    /\ InLoad
    /\ impl = "okavango"
    /\ ~sources[i].is_shapefile
    /\ disk[sources[i].filename].kind = "csv"
    /\ LegacyScan(disk[sources[i].filename].body.cols, 1) # 0
    /\ dataframes' = DictSet(dataframes, sources[i].filename,
                             LegacyCleanFrame(disk[sources[i].filename].body))
    /\ i' = i + 1
    /\ UNCHANGED <<impl, sources, disk, nreq, run, pc, geo_dataframe,
                   merged_gdf, merged_data, err, first_ok, snap>>

\* the loop is over: __init__ goes on to merge_geospatial_layers
LoadFinish ==
    /\ pc = "load"
    /\ i > Len(sources)
    /\ pc' = "merge"
    /\ i' = 0
    /\ UNCHANGED <<impl, sources, disk, nreq, run, dataframes, geo_dataframe,
                   merged_gdf, merged_data, err, first_ok, snap>>

----------------------------------------------------------------------------
(* merge_geospatial_layers of okavango_app.py: entry, one step per table, exit *)

\* mutant of MergeNoGeo: the missing geometry raised to the caller
MergeNoGeoRaises ==
    /\ pc = "merge"
    /\ i = 0
    /\ geo_dataframe = None
    /\ Raise("ValueError", "merge")
    /\ UNCHANGED <<impl, sources, disk, nreq, run, i, dataframes, geo_dataframe,
                   merged_gdf, merged_data, first_ok, snap>>

\* if self.geo_dataframe is None: return
MergeNoGeo ==
    /\ pc = "merge"
    /\ i = 0
    /\ geo_dataframe = None
    /\ pc' = "done"
    /\ UNCHANGED <<impl, sources, disk, nreq, run, i, dataframes, geo_dataframe,
                   merged_gdf, merged_data, err, first_ok, snap>>

\* merged_gdf = self.geo_dataframe.copy()
MergeBegin ==
    /\ pc = "merge"
    /\ i = 0
    /\ geo_dataframe # None
    /\ merged_gdf' = geo_dataframe[1]
    /\ i' = 1
    /\ UNCHANGED <<impl, sources, disk, nreq, run, pc, dataframes, geo_dataframe,
                   merged_data, err, first_ok, snap>>

InMerge == pc = "merge" /\ i >= 1 /\ i <= Len(dataframes)

\* if df.empty: continue
MergeSkipEmpty ==
    /\ InMerge
    /\ IsEmpty(dataframes[i].df)
    /\ i' = i + 1
    /\ UNCHANGED <<impl, sources, disk, nreq, run, pc, dataframes, geo_dataframe,
                   merged_gdf, merged_data, err, first_ok, snap>>

\* merge raises KeyError: the polygons have no column labelled map_code_col
MergeKeyError ==
    /\ InMerge
    /\ ~IsEmpty(dataframes[i].df)
    /\ ~HasCol(merged_gdf, MapCodeCol(merged_gdf))
    /\ Raise("KeyError", "merge")
    /\ UNCHANGED <<impl, sources, disk, nreq, run, i, dataframes, geo_dataframe,
                   merged_gdf, merged_data, first_ok, snap>>

\* the join and the removal of the "_drop" columns
MergeJoin ==
    /\ InMerge
    /\ ~IsEmpty(dataframes[i].df)
    /\ HasCol(merged_gdf, MapCodeCol(merged_gdf))
    /\ merged_gdf' = JoinStep(merged_gdf, dataframes[i].df)
    /\ i' = i + 1
    /\ UNCHANGED <<impl, sources, disk, nreq, run, pc, dataframes, geo_dataframe,
                   merged_data, err, first_ok, snap>>

\* self.merged_data = merged_gdf
MergeFinish ==
    /\ pc = "merge"
    /\ i > Len(dataframes)
    /\ merged_data' = Some(merged_gdf)
    /\ pc' = "done"
    /\ UNCHANGED <<impl, sources, disk, nreq, run, i, dataframes, geo_dataframe,
                   merged_gdf, err, first_ok, snap>>

----------------------------------------------------------------------------
(* A further OkavangoData(sources, download_dir) on the same download_dir *)

Reinvoke ==
    /\ pc \in {"done", "error"}
    /\ run < MaxRuns
    /\ run' = run + 1
    /\ pc' = "download"
    /\ i' = 1
    /\ dataframes' = <<>>
    /\ geo_dataframe' = None
    /\ merged_gdf' = EmptyFrame
    /\ merged_data' = None
    /\ err' = NoError
    /\ UNCHANGED <<impl, sources, disk, nreq, first_ok, snap>>

----------------------------------------------------------------------------
(* The inputs of the model *)

\* the sequences over S of length lo..hi
SeqsOf(S, lo, hi) == UNION {[1..n -> S] : n \in lo..hi}

\* those without a repeated element
DistinctSeqsOf(S, lo, hi) ==
    {q \in SeqsOf(S, lo, hi) : \A a, b \in 1..Len(q) : q[a] = q[b] => a = b}

\* header labels of raw CSV tables
HeaderNames == {"Code", "ISO3", "Entity", "Country", "Name", "Year", "V"}

Seed(code, year) == [code |-> code, year |-> year]

\* what a raw row says: the country ("" for an aggregate without a code) and a
\* year; a table may hold the same seed twice (two rows of one country and year)
RowSeeds == {Seed("", 2019), Seed("USA", 2019), Seed("USA", 2021), Seed("FRA", 2021)}

CountryName(code) ==
    CASE code = "USA" -> "United States"
      [] code = "FRA" -> "France"
      [] OTHER -> "World"

\* the cell of the row at position pos under header h: "Year" holds the year,
\* "Code" the ISO-3 code, another code-like column the code in lower case, a
\* name-like column the country's name in that column's spelling, any other
\* column a metric; columns differ in their values, so a column is told by them
RawCell(h, seed, pos) ==
    IF h = "Year" THEN Num(seed.year)
    ELSE IF IsCodeLike(h)
         THEN IF seed.code = "" THEN NULL
              ELSE IF h = "Code" THEN Str(seed.code) ELSE Str(Lower(seed.code))
    ELSE IF IsNameLike(h) THEN Str(CountryName(seed.code) \o " (" \o h \o ")")
    ELSE Num(pos)

\* the text of a CSV file: the header line and the cells of each line
RawTable(cols, seeds) ==
    Frame(cols, [r \in 1..Len(seeds) |-> [k \in 1..Len(cols) |-> RawCell(cols[k], seeds[r], r)]])

RawTables ==
    {RawTable(cols, seeds) : cols \in DistinctSeqsOf(HeaderNames, 1, MaxCols),
                             seeds \in SeqsOf(RowSeeds, 0, MaxRows)}

\* the bodies the pipeline's CSV URLs can answer with: an OWID-like table, a
\* table without Year that repeats a code, a table without any key column, a
\* table whose only row is an aggregate
RemoteTables ==
    { RawTable(<<"Entity", "Code", "Year", "V">>,
               <<Seed("USA", 2019), Seed("USA", 2021), Seed("FRA", 2021)>>),
      RawTable(<<"Code", "V">>, <<Seed("USA", 2019), Seed("USA", 2021)>>),
      RawTable(<<"V">>, <<Seed("USA", 2021)>>),
      RawTable(<<"Code", "W">>, <<Seed("", 2021)>>) }

Geom(n) == [k |-> "geom", s |-> "", n |-> n]

\* the country codes of polygons and indicator tables
Codes == {"USA", "FRA"}

\* the attribute layouts of a polygon collection; "ISO_A3" holds "-99" where
\* "ADM0_A3" is present too (as Natural Earth does for some countries)
GeoLayouts ==
    { <<"ADM0_A3", "geometry">>,
      <<"ISO_A3", "geometry">>,
      <<"ADM0_A3", "ISO_A3", "geometry">>,
      <<"NAME", "geometry">>,
      <<"ADM0_A3", "rain_drop", "geometry">>,
      <<"ADM0_A3", "M1", "geometry">> }

GeoCell(cols, h, code, pos) ==
    IF h = "geometry" THEN Geom(pos)
    ELSE IF h = "ADM0_A3" THEN Str(code)
    ELSE IF h = "ISO_A3" THEN (IF HasCol(Frame(cols, <<>>), "ADM0_A3") THEN Str("-99") ELSE Str(code))
    ELSE IF h = "NAME" THEN Str(CountryName(code))
    ELSE Num(100 + pos)

\* a polygon collection as gpd.read_file returns it: one record per country
GeoFrame(cols, codes) ==
    Frame(cols, [r \in 1..Len(codes) |->
                    Row(r - 1, [k \in 1..Len(cols) |-> GeoCell(cols, cols[k], codes[r], r)])])

GeoFrames ==
    {GeoFrame(cols, codes) : cols \in GeoLayouts,
                             codes \in DistinctSeqsOf(Codes, 1, Cardinality(Codes))}

\* the shapefiles the pipeline's archive URL can answer with
RemoteGeos ==
    { GeoFrame(<<"ADM0_A3", "geometry">>, <<"USA", "FRA">>),
      GeoFrame(<<"NAME", "geometry">>, <<"USA", "FRA">>) }

\* the column layouts of indicator tables handed to the merge
TableLayouts ==
    { <<"Code", "M1">>, <<"Code", "M2", "M1">>, <<"Code", "rain_drop">> }

\* an indicator table: the metric of row r in column k is 10 * r + k
TableFrame(cols, codes) ==
    Frame(cols, [r \in 1..Len(codes) |->
                    Row(r - 1, [k \in 1..Len(cols) |->
                                   IF cols[k] = "Code" THEN Str(codes[r]) ELSE Num(10 * r + k)])])

TableFrames ==
    {TableFrame(cols, codes) : cols \in TableLayouts,
                               codes \in SeqsOf(Codes, 0, MaxTableRows)}

\* the keys of `dataframes`, in insertion order
TableNames == <<"a.csv", "b.csv">>

TableDicts ==
    { [k \in 1..Len(q) |-> [name |-> TableNames[k], df |-> q[k]]] :
          q \in SeqsOf(TableFrames, 0, Len(TableNames)) }

SourcePool ==
    { DataSource("https://example.com/a.csv", "a.csv", FALSE),
      DataSource("https://example.com/b.csv", "b.csv", FALSE),
      DataSource("https://example.com/ne_110m_admin_0_countries.zip", "", TRUE) }

----------------------------------------------------------------------------
(* The pipeline: OkavangoData(sources, download_dir) on a fresh download_dir, *)
(* and further invocations on the same directory                              *)

Init ==
    /\ impl = "okavango_app"
    /\ sources \in SeqsOf(SourcePool, 0, MaxSources)
    /\ disk = [p \in Paths |-> Absent]
    /\ nreq = [p \in Paths |-> 0]
    /\ run = 1
    /\ pc = "download"
    /\ i = 1
    /\ dataframes = <<>>
    /\ geo_dataframe = None
    /\ merged_gdf = EmptyFrame
    /\ merged_data = None
    /\ err = NoError
    /\ first_ok = FALSE
    /\ snap = [p \in Paths |-> Absent]

Next ==
    \/ DownloadSkip
    \/ DownloadHttpError
    \/ DownloadBodyError
    \/ DownloadBadZip
    \/ \E geo \in RemoteGeos : DownloadShapefile(geo)
    \/ \E raw \in RemoteTables : DownloadCsv(raw)
    \/ DownloadFinish
    \/ LoadShapefile
    \/ LoadShapefileError
    \/ LoadCsvError
    \/ LoadCsvSkip
    \/ LoadCsvStore
    \/ LoadFinish
    \/ MergeNoGeo
    \/ MergeBegin
    \/ MergeSkipEmpty
    \/ MergeKeyError
    \/ MergeJoin
    \/ MergeFinish
    \/ Reinvoke

Spec == Init /\ [][Next]_vars

----------------------------------------------------------------------------
(* The normaliser alone: _load_and_clean_dataframes of either module on one *)
(* downloaded CSV file of any content                                       *)

InitNorm ==
    /\ impl \in {"okavango_app", "okavango"}
    /\ sources = <<DataSource("https://example.com/a.csv", "a.csv", FALSE)>>
    /\ \E raw \in RawTables :
           disk = [p \in Paths |-> IF p = "a.csv" THEN File("csv", raw) ELSE Absent]
    /\ nreq = [p \in Paths |-> IF p = "a.csv" THEN 1 ELSE 0]
    /\ run = 1
    /\ pc = "load"
    /\ i = 1
    /\ dataframes = <<>>
    /\ geo_dataframe = None
    /\ merged_gdf = EmptyFrame
    /\ merged_data = None
    /\ err = NoError
    /\ first_ok = TRUE
    /\ snap = disk

NextNorm ==
    \/ LoadCsvSkip
    \/ LoadCsvStore
    \/ LegacyLoadCsvSkip
    \/ LegacyLoadCsvStore
    \/ LoadFinish

SpecNorm == InitNorm /\ [][NextNorm]_vars

----------------------------------------------------------------------------
(* The merge alone: merge_geospatial_layers on a handler whose geo_dataframe *)
(* and dataframes were assigned directly (as tests/okavango_test.py does)    *)

InitMerge ==
    /\ impl = "okavango_app"
    /\ sources = <<>>
    /\ disk = [p \in Paths |-> Absent]
    /\ nreq = [p \in Paths |-> 0]
    /\ run = 1
    /\ pc = "merge"
    /\ i = 0
    /\ dataframes \in TableDicts
    /\ geo_dataframe \in {None} \cup {Some(g) : g \in GeoFrames}
    /\ merged_gdf = EmptyFrame
    /\ merged_data = None
    /\ err = NoError
    /\ first_ok = TRUE
    /\ snap = disk

NextMerge ==
    \/ MergeNoGeo
    \/ MergeBegin
    \/ MergeSkipEmpty
    \/ MergeKeyError
    \/ MergeJoin
    \/ MergeFinish

SpecMerge == InitMerge /\ [][NextMerge]_vars

----------------------------------------------------------------------------
(* Notions the claims share *)

\* the entries of `dataframes` stored from a CSV file that is on disk
StoredEntries == {k \in 1..Len(dataframes) : disk[dataframes[k].name].kind = "csv"}

\* the raw table an entry was normalised from, as read_csv returns it
RawOf(k) == ReadCsv(disk[dataframes[k].name].body)

Max(S) == CHOOSE x \in S : \A y \in S : y <= x
Min(S) == CHOOSE x \in S : \A y \in S : x <= y

\* the position of the join-key column the running module picks in a raw table
KeyPos(raw) ==
    IF impl = "okavango_app" THEN FindGeoCol(raw.cols) ELSE LegacyScan(raw.cols, 1)

\* the input rows (positions) of the raw table that hold the same country as
\* the input row at position j, the country being read in the column at key
SameCountry(raw, key, j) ==
    {r \in 1..Len(raw.rows) : raw.rows[r].cells[key] = raw.rows[j].cells[key]}

YearAt(raw, r) == Cell(raw, r, "Year").n

\* the input rows of the country of row j that hold its greatest year
LatestRows(raw, key, j) ==
    LET same == SameCountry(raw, key, j)
        latest == Max({YearAt(raw, q) : q \in same})
    IN {r \in same : YearAt(raw, r) = latest}

----------------------------------------------------------------------------
(* C7 *)

\* C7 (as claimed): every indicator table that okavango_app.py's
\* _load_and_clean_dataframes stores has no row with a null Code and exactly
\* one row per distinct Code, whatever the raw table was.
C7_OneRowPerCode ==
    impl = "okavango_app" =>
        \A k \in 1..Len(dataframes) :
            LET df == dataframes[k].df
            IN /\ \A r \in 1..Len(df.rows) : Cell(df, r, "Code") # NULL
               /\ \A r, q \in 1..Len(df.rows) :
                      Cell(df, r, "Code") = Cell(df, q, "Code") => r = q

----------------------------------------------------------------------------
(* C8 *)

\* C8 (amended): for a raw table with a Year column, normalisation keeps for
\* every country code of the input exactly one row, and that row is an input
\* row of that code holding the greatest year of the code; okavango.py keeps
\* the first such row in input order (okavango_app.py: any of them).
C8_LatestYearKept ==
    \A k \in StoredEntries :
        LET raw == RawOf(k)
            key == KeyPos(raw)
            df == dataframes[k].df
        IN HasCol(raw, "Year") =>
              /\ \A s \in 1..Len(df.rows) :
                    /\ df.rows[s].idx + 1 \in 1..Len(raw.rows)
                    /\ df.rows[s].idx + 1 \in LatestRows(raw, key, df.rows[s].idx + 1)
                    /\ impl = "okavango" =>
                          df.rows[s].idx + 1 = Min(LatestRows(raw, key, df.rows[s].idx + 1))
              /\ \A j \in 1..Len(raw.rows) :
                    raw.rows[j].cells[key] # NULL =>
                        Cardinality({s \in 1..Len(df.rows) :
                                        df.rows[s].idx + 1 \in SameCountry(raw, key, j)}) = 1

\* C8 (as claimed): the kept row is, in both modules, the first input row among
\* those that hold the greatest year of its code.
C8_FirstOfLatestKept ==
    \A k \in StoredEntries :
        LET raw == RawOf(k)
            key == KeyPos(raw)
            df == dataframes[k].df
        IN HasCol(raw, "Year") =>
              \A s \in 1..Len(df.rows) :
                  df.rows[s].idx + 1 = Min(LatestRows(raw, key, df.rows[s].idx + 1))

\* a table was stored from a raw table with a Year column in which one country
\* has rows of different years, and the module is okavango_app.py
C8_Witness ==
    /\ impl = "okavango_app"
    /\ \E k \in StoredEntries :
          LET raw == RawOf(k)
              key == KeyPos(raw)
          IN /\ HasCol(raw, "Year")
             /\ Len(dataframes[k].df.rows) >= 1
             /\ \E j \in 1..Len(raw.rows) :
                   /\ raw.rows[j].cells[key] # NULL
                   /\ \E r \in SameCountry(raw, key, j) : YearAt(raw, r) # YearAt(raw, j)

----------------------------------------------------------------------------
(* C9 *)

\* the labels (positions) whose lower-cased name contains one of the words
Holding(cols, words) ==
    {k \in 1..Len(cols) : \E w \in words : Contains(Lower(cols[k]), w)}

\* the join-key column as amended: the first label holding "code" or "iso",
\* else the first label holding "entity", "country" or "name"; 0 if none
FirstSeenKey(cols) ==
    IF Holding(cols, {"code", "iso"}) # {} THEN Min(Holding(cols, {"code", "iso"}))
    ELSE IF Holding(cols, {"entity", "country", "name"}) # {}
         THEN Min(Holding(cols, {"entity", "country", "name"}))
    ELSE 0

\* the join-key column as claimed: after "code"/"iso", a label holding "entity"
\* goes before one holding "country", before one holding "name"
PriorityKey(cols) ==
    IF Holding(cols, {"code", "iso"}) # {} THEN Min(Holding(cols, {"code", "iso"}))
    ELSE IF Holding(cols, {"entity"}) # {} THEN Min(Holding(cols, {"entity"}))
    ELSE IF Holding(cols, {"country"}) # {} THEN Min(Holding(cols, {"country"}))
    ELSE IF Holding(cols, {"name"}) # {} THEN Min(Holding(cols, {"name"}))
    ELSE 0

\* the CSV sources (positions) the load loop of okavango_app.py has gone past
LoadedCsv ==
    IF impl = "okavango_app" /\ pc = "load"
    THEN {j \in 1..Len(sources) :
             j < i /\ ~sources[j].is_shapefile /\ disk[sources[j].filename].kind = "csv"}
    ELSE {}

\* what C9 says of the state, with the join-key column as claimed (byPriority)
\* or as amended: a source with no key column has no table stored, any other
\* has one, and the Code column of the stored table holds, row for row, the
\* raw table's key column
KeyIs(byPriority) ==
    \A j \in LoadedCsv :
        LET raw == ReadCsv(disk[sources[j].filename].body)
            key == IF byPriority THEN PriorityKey(raw.cols) ELSE FirstSeenKey(raw.cols)
            at == {k \in 1..Len(dataframes) : dataframes[k].name = sources[j].filename}
        IN IF key = 0 THEN at = {}
           ELSE /\ at # {}
                /\ \A k \in at :
                      LET df == dataframes[k].df
                      IN /\ HasCol(df, "Code")
                         /\ \A s \in 1..Len(df.rows) :
                               Cell(df, s, "Code") =
                                   raw.rows[df.rows[s].idx + 1].cells[key]

\* C9 (amended): the join key is the first header whose lower-cased name
\* contains `code` or `iso`, else the first header in column order whose
\* lower-cased name contains `entity`, `country` or `name`; with no such header
\* the source is skipped and nothing stored; the chosen column ends up named
\* Code with the values it had in the raw table.
C9_FirstSeenKey == KeyIs(FALSE)

\* C9 (as claimed): among the fallback headers the key is chosen by keyword
\* priority (entity, country, name), whatever their column positions.
C9_PriorityKey == KeyIs(TRUE)

\* a table with rows was stored from a raw table without a code-like header in
\* which a header holding a later keyword stands before one holding an earlier
C9_Witness ==
    \E j \in LoadedCsv :
        LET raw == ReadCsv(disk[sources[j].filename].body)
        IN /\ Holding(raw.cols, {"code", "iso"}) = {}
           /\ FirstSeenKey(raw.cols) # PriorityKey(raw.cols)
           /\ \E k \in 1..Len(dataframes) :
                 dataframes[k].name = sources[j].filename /\ Len(dataframes[k].df.rows) >= 1

----------------------------------------------------------------------------
(* C1 *)

\* the merge loop is running or has run on a polygon collection
Merging == geo_dataframe # None /\ ((pc = "merge" /\ i >= 1) \/ (pc = "done" /\ merged_data # None))

\* C1 (as claimed): after every join step and at the end the merged table has
\* exactly as many rows as the polygon collection, for every sequence of
\* indicator tables in `dataframes`.
C1_RowPreservation ==
    /\ Merging => Len(merged_gdf.rows) = Len(geo_dataframe[1].rows)
    /\ (pc = "done" /\ geo_dataframe # None /\ merged_data # None) =>
           Len(merged_data[1].rows) = Len(geo_dataframe[1].rows)

----------------------------------------------------------------------------
(* C2 *)

\* the polygon collection has a join attribute
HasJoinAttr(geo) == HasCol(geo, "ADM0_A3") \/ HasCol(geo, "ISO_A3")

\* the ISO-3 code of a polygon row: the primary attribute, else the secondary
PolygonCode(geo, r) ==
    IF HasCol(geo, "ADM0_A3") THEN Cell(geo, r, "ADM0_A3") ELSE Cell(geo, r, "ISO_A3")

\* the value columns of an indicator table
ValueCols(df) == {df.cols[k] : k \in 1..Len(df.cols)} \ {"Code"}

\* the labels the running merged table holds when table k is joined: those of
\* the polygons and of the non-empty tables before k
SeenBefore(k) ==
    {geo_dataframe[1].cols[c] : c \in 1..Len(geo_dataframe[1].cols)}
    \cup UNION {ValueCols(dataframes[j].df) \cup {"Code"} :
                   j \in {j \in 1..(k - 1) : ~IsEmpty(dataframes[j].df)}}

\* what C2 says of a finished merge for the value columns `covered` picks:
\* every row of table k whose code a polygon holds shows, under each such
\* column, in a merged row of that country, and every merged row of that
\* country holds under that column a value table k holds for the country
ValuesCarried(onlyFresh) ==
    (pc = "done" /\ geo_dataframe # None /\ merged_data # None
       /\ HasJoinAttr(geo_dataframe[1])) =>
    LET geo == geo_dataframe[1]
        merged == merged_data[1]
    IN \A k \in 1..Len(dataframes) :
         LET df == dataframes[k].df
             covered == IF onlyFresh
                        THEN {v \in ValueCols(df) :
                                 v \notin SeenBefore(k) /\ ~EndsWith(v, "_drop")}
                        ELSE ValueCols(df)
             inGeo(r) == \E g \in 1..Len(geo.rows) : PolygonCode(geo, g) = Cell(df, r, "Code")
         IN \A v \in covered :
              \A r \in 1..Len(df.rows) :
                inGeo(r) =>
                  /\ HasCol(merged, v)
                  /\ \E m \in 1..Len(merged.rows) :
                        /\ PolygonCode(merged, m) = Cell(df, r, "Code")
                        /\ Cell(merged, m, v) = Cell(df, r, v)
                  /\ \A m \in 1..Len(merged.rows) :
                        PolygonCode(merged, m) = Cell(df, r, "Code") =>
                            \E q \in 1..Len(df.rows) :
                                /\ Cell(df, q, "Code") = Cell(df, r, "Code")
                                /\ Cell(merged, m, v) = Cell(df, q, v)

----------------------------------------------------------------------------
(* C6 *)

\* the cells of the column labelled name, top to bottom
Column(df, name) == [r \in 1..Len(df.rows) |-> Cell(df, r, name)]

\* C6 (as claimed): a join step keeps every column of the running merged table
\* whose name the incoming table carries too, values unchanged, and leaves no
\* name twice in the merged table; joining a table equal to the one joined
\* just before changes neither rows nor columns.
C6_FirstSeenWins ==
    [][ (InMerge /\ i' = i + 1 /\ ~IsEmpty(dataframes[i].df)) =>
          /\ \A c \in 1..Len(merged_gdf.cols) :
                HasCol(dataframes[i].df, merged_gdf.cols[c]) =>
                    /\ HasCol(merged_gdf', merged_gdf.cols[c])
                    /\ Column(merged_gdf', merged_gdf.cols[c]) = Column(merged_gdf, merged_gdf.cols[c])
          /\ \A a, b \in 1..Len(merged_gdf'.cols) :
                merged_gdf'.cols[a] = merged_gdf'.cols[b] => a = b
          /\ (i >= 2 /\ dataframes[i - 1].df = dataframes[i].df) => merged_gdf' = merged_gdf
      ]_vars

----------------------------------------------------------------------------
(* C10 *)

\* C10 (as claimed): with polygons that have neither ADM0_A3 nor ISO_A3 the
\* run never completes normally with a merged table, whatever `dataframes` holds.
C10_SchemaError ==
    ~(/\ pc = "done"
      /\ geo_dataframe # None
      /\ ~HasCol(geo_dataframe[1], "ADM0_A3")
      /\ ~HasCol(geo_dataframe[1], "ISO_A3")
      /\ merged_data # None)

----------------------------------------------------------------------------
(* C3 *)

\* C3 (as claimed): a run over a source list without a geometry source, whose
\* geo_dataframe is None at merge time, never completes normally.
C3_GeometryMandatory == ~(pc = "done" /\ geo_dataframe = None /\ Len(sources) >= 1)

\* C3 (amended): when geo_dataframe is None at merge time (no geometry source
\* in the list), merge_geospatial_layers returns without raising and the run
\* completes normally with merged_data None; merged_data is None after a
\* completed run only in that case, and no run without polygons ends in an
\* error of the merge.
C3_SilentReturn ==
    /\ (pc = "done" /\ geo_dataframe = None) => merged_data = None
    /\ (pc = "done" /\ merged_data = None) => geo_dataframe = None
    /\ (pc = "error" /\ geo_dataframe = None) => err.stage # "merge"
    /\ (pc = "error" /\ err.stage = "merge") => err.kind = "KeyError"

\* a first run over a non-empty source list without geometry has completed
C3_Witness ==
    /\ pc = "done"
    /\ run = 1
    /\ Len(sources) >= 1
    /\ \A k \in 1..Len(sources) : ~sources[k].is_shapefile
    /\ geo_dataframe = None
    /\ Len(dataframes) >= 1

----------------------------------------------------------------------------
(* C4 *)

\* C4 (as claimed): with the geometry fetched and extracted, no run ends in an
\* error raised by the fetch of a tabular source.
C4_TabularFailureNonFatal ==
    ~(/\ pc = "error"
      /\ err.stage = "download"
      /\ ~sources[err.at].is_shapefile
      /\ disk[ZipPath].kind = "zip"
      /\ disk[ShpPath].kind = "shp")

----------------------------------------------------------------------------
(* C5 *)

\* C5: once the first run's download_project_data has returned, exactly one
\* request has been issued for the target of every source, and every later
\* step, those of further runs included, issues none and leaves the files of
\* download_dir as they were.
C5_IdempotentCaching ==
    first_ok =>
        /\ \A k \in 1..Len(sources) : nreq[Target(sources[k])] = 1
        /\ disk = snap

\* the download of a second run has gone through all of a non-empty source list
C5_Witness ==
    /\ first_ok
    /\ run = 2
    /\ pc = "load"
    /\ Len(sources) >= 1

----------------------------------------------------------------------------
(* C11 *)

\* the artifact of a source is on disk as a completed fetch leaves it: the CSV
\* text whole, or the archive whole together with the shapefile extracted from it
Complete(d, source) ==
    IF source.is_shapefile
    THEN d[ZipPath].kind = "zip" /\ d[ShpPath].kind = "shp"
    ELSE d[source.filename].kind = "csv"

\* C11 (as claimed): when a re-invoked run comes to a source and finds its
\* target on disk (and so issues no request for it), the artifact is that of a
\* fetch that completed: no partially written file and no archive that was
\* never extracted counts as present.
C11_HitOnlyAfterCompleteFetch ==
    (run >= 2 /\ InDownload /\ ~NotOnDisk(sources[i])) => Complete(disk, sources[i])

----------------------------------------------------------------------------
(* C12 *)

\* every attribute column of the polygon collection geo is a column of the
\* table under its own name, holding the same cells top to bottom
AttributesKept(geo, table) ==
    \A c \in 1..Len(geo.cols) :
        /\ HasCol(table, geo.cols[c])
        /\ Column(table, geo.cols[c]) = Column(geo, geo.cols[c])

\* C12 (as claimed): every step of merge_geospatial_layers on a polygon
\* collection leaves geo_dataframe and the tables of dataframes as they were,
\* and the running merged table, like the merged_data it ends in, holds every
\* attribute column of the polygon collection (geometry and join attribute
\* included) under its name with the same values in the same row order,
\* whatever the attribute names and the indicator tables are.
C12_PolygonAttributesSurvive ==
    [][ (pc = "merge" /\ geo_dataframe # None) =>
          /\ geo_dataframe' = geo_dataframe
          /\ dataframes' = dataframes
          /\ i' >= 1 => AttributesKept(geo_dataframe[1], merged_gdf')
          /\ merged_data' # None => AttributesKept(geo_dataframe[1], merged_data'[1])
      ]_vars
====
